---- MODULE Spec2Model ----
(***************************************************************************)
(* Verification model of the UK property search backend (main.py), its     *)
(* upstream gateway (scansan_client.py) and the search trigger of the      *)
(* presentation layer (app.py).                                            *)
(*                                                                         *)
(* Python values are tagged records, so that truthiness, isinstance and    *)
(* dict.get are computed the way the interpreter computes them.  Strings   *)
(* are sequences of one-character strings, so that strip(), upper() and    *)
(* the regular expression of is_full_postcode work on characters.          *)
(***************************************************************************)
EXTENDS Integers, Sequences, FiniteSets, TLC

VARIABLES
    pc,                 \* position of the running call
    area,               \* argument `area`
    query,              \* argument `query`
    postcode_district,  \* argument `postcode_district`
    street,             \* argument `street` / `street_name`
    validation,         \* value returned by validate_search_input
    api_response,       \* value returned by the gateway; the payload handed to the parser
    parsed,             \* value returned by parse_api_search_response
    val,                \* one entry of a valuations payload
    properties,         \* the list `properties` (records built, or the list to sort)
    sort_option,        \* argument `sort_option`
    sorted_results,     \* value returned by sort_properties
    caller,             \* who called search_properties: "none", "app", "direct"
    requests,           \* the upstream requests issued by the running search
    code_index,         \* position of the loop over area_codes[:6]
    returned,           \* value returned by search_properties
    live,               \* outcome of search_properties_from_api: its list, or Raised
    answered,           \* number of upstream calls of the running call that have ended
    gw_call,            \* the gateway operation called and its arguments
    upstream,           \* what the upstream does with the request of gw_call
    results,            \* st.session_state.results
    last_search,        \* st.session_state.last_search
    mock_changes,       \* the records of AREA_PROPERTIES that were changed since import, by position
    current_view        \* st.session_state.current_view

argVars == <<area, query, postcode_district, street>>
sortVars == <<sort_option, sorted_results>>
parseVars == <<api_response, parsed>>
sessionVars == <<results, last_search>>
searchVars == <<caller, requests, code_index, returned, live, answered>>
gatewayVars == <<gw_call, upstream>>
vars == <<pc, argVars, validation, parseVars, val, properties, sortVars, searchVars, sessionVars, gatewayVars, mock_changes, current_view>>

(***************************************************************************)
(* Python values                                                           *)
(***************************************************************************)
None == [t |-> "none"]
PyInt(n) == [t |-> "int", n |-> n]
PyStr(s) == [t |-> "str", s |-> s]
PyText(x) == [t |-> "text", text |-> x]
PyList(xs) == [t |-> "list", items |-> xs]
PyDict(f) == [t |-> "dict", fields |-> f]
PyInf == [t |-> "inf"]

\* a variable that holds no value yet, and a key that a dict does not have
Unset == [t |-> "unset"]
Absent == [t |-> "absent"]

\* stands for the value of a call that raised instead of returning
Raised == [t |-> "raised"]

\* d.get(k, default) on the fields of a dict
DictGet(f, k, default) == IF k \in DOMAIN f THEN f[k] ELSE default

\* the dict with the keys of f whose value is not Absent
MakeDict(f) == [k \in {x \in DOMAIN f : f[x] # Absent} |-> f[k]]

\* sample texts of the upstream payloads
Txt ==
    [ Brixton |-> PyStr(<<"B","r","i","x","t","o","n">>),
      ward |-> PyStr(<<"w","a","r","d">>),
      SW9 |-> PyStr(<<"S","W","9">>),
      SW2 |-> PyStr(<<"S","W","2">>),
      SE1 |-> PyStr(<<"S","E","1">>),
      Lambeth |-> PyStr(<<"L","a","m","b","e","t","h">>),
      Elm |-> PyStr(<<"E","l","m"," ","R","d">>),
      Address |-> PyStr(<<"1"," ","E","l","m"," ","R","d">>),
      Date |-> PyStr(<<"2","0","2","4">>),
      Empty |-> PyStr(<<>>) ]

\* sample texts of the caller: areas of the selector, queries, a district, a street
Chars ==
    [ Anywhere |-> <<"A","n","y","w","h","e","r","e"," ","i","n"," ","t","h","e"," ","U","K">>,
      Any |-> <<"A","n","y">>,
      London |-> <<"L","o","n","d","o","n">>,
      Aberdeen |-> <<"A","b","e","r","d","e","e","n">>,
      Brixton |-> <<" ","B","r","i","x","t","o","n">>,
      FullPostcode |-> <<"S","S","0"," ","0","B","W">>,
      baker |-> <<"b","a","k","e","r">>,
      Road |-> <<" ","R","O","A","D">>,
      Blank |-> <<" ">>,
      sw1a |-> <<" ","s","w","1","a">>,
      Downing |-> <<"D","o","w","n","i","n","g"," ","S","t"," ">> ]

\* a < b on numbers, float('inf') above every int
PyLess(a, b) ==
    CASE a.t = "inf" -> FALSE
      [] b.t = "inf" -> TRUE
      [] OTHER -> a.n < b.n

\* bool(v): None, 0, "", [] and {} are false, everything else is true
Truthy(v) ==
    CASE v.t = "none" -> FALSE
      [] v.t = "int" -> v.n # 0
      [] v.t = "str" -> v.s # <<>>
      [] v.t = "text" -> v.text # ""
      [] v.t = "list" -> v.items # <<>>
      [] v.t = "dict" -> DOMAIN v.fields # {}
      [] OTHER -> TRUE

\* bool(s) of a str argument
StrTruthy(s) == s # <<>>

(***************************************************************************)
(* Characters and str methods                                              *)
(***************************************************************************)
UpperChars == <<"A","B","C","D","E","F","G","H","I","J","K","L","M",
                "N","O","P","Q","R","S","T","U","V","W","X","Y","Z">>
LowerChars == <<"a","b","c","d","e","f","g","h","i","j","k","l","m",
                "n","o","p","q","r","s","t","u","v","w","x","y","z">>
AsciiLetters == {UpperChars[i] : i \in DOMAIN UpperChars} \cup {LowerChars[i] : i \in DOMAIN LowerChars}
DigitChars == {"0","1","2","3","4","5","6","7","8","9"}
SpaceChars == {" "}

RECURSIVE LStrip(_)
LStrip(s) == IF s # <<>> /\ Head(s) \in SpaceChars THEN LStrip(Tail(s)) ELSE s

RECURSIVE RStrip(_)
RStrip(s) ==
    IF s # <<>> /\ s[Len(s)] \in SpaceChars THEN RStrip(SubSeq(s, 1, Len(s) - 1)) ELSE s

\* str.strip()
Strip(s) == RStrip(LStrip(s))

UpperChar(c) ==
    IF \E i \in DOMAIN LowerChars : LowerChars[i] = c
    THEN UpperChars[CHOOSE i \in DOMAIN LowerChars : LowerChars[i] = c]
    ELSE c

LowerChar(c) ==
    IF \E i \in DOMAIN UpperChars : UpperChars[i] = c
    THEN LowerChars[CHOOSE i \in DOMAIN UpperChars : UpperChars[i] = c]
    ELSE c

\* str.upper() and str.lower()
Upper(s) == [i \in DOMAIN s |-> UpperChar(s[i])]
Lower(s) == [i \in DOMAIN s |-> LowerChar(s[i])]

(***************************************************************************)
(* is_full_postcode: ^[A-Za-z]{1,2}\d{1,2}[A-Za-z]?\s+\d[A-Za-z]{2}$       *)
(***************************************************************************)
\* one element per quantified atom of the pattern; hi = 0 stands for "no upper limit"
PostcodePattern ==
    << [cls |-> AsciiLetters, lo |-> 1, hi |-> 2],
       [cls |-> DigitChars,   lo |-> 1, hi |-> 2],
       [cls |-> AsciiLetters, lo |-> 0, hi |-> 1],
       [cls |-> SpaceChars,   lo |-> 1, hi |-> 0],
       [cls |-> DigitChars,   lo |-> 1, hi |-> 1],
       [cls |-> AsciiLetters, lo |-> 2, hi |-> 2] >>

\* re.match of `pattern` from element p (k repetitions of it already taken)
\* against text[i..]; the trailing `$` demands the end of the text
RECURSIVE ReMatch(_, _, _, _, _)
ReMatch(pattern, text, i, p, k) ==
    IF p > Len(pattern)
    THEN i > Len(text)
    ELSE LET e == pattern[p] IN
         \/ /\ (e.hi = 0 \/ k < e.hi)
            /\ i <= Len(text)
            /\ text[i] \in e.cls
            /\ ReMatch(pattern, text, i + 1, p, k + 1)
         \/ /\ k >= e.lo
            /\ ReMatch(pattern, text, i, p + 1, 0)

\* variant: the pattern applied to the text as typed, without strip()
is_full_postcode_unstripped(text) == ReMatch(PostcodePattern, text, 1, 1, 0)

is_full_postcode(text) == ReMatch(PostcodePattern, Strip(text), 1, 1, 0)

(***************************************************************************)
(* validate_search_input                                                   *)
(***************************************************************************)
FullPostcodeMessage == PyText("Full postcodes (e.g., 'SS0 0BW', 'NG8 1BB') are not supported.")
BothRequiredMessage == PyText("To search by street, you must provide BOTH the postcode district AND street name.")

\* variant: only a district without a street is rejected
validate_search_input_district_only(q, district, street_name) ==
    IF StrTruthy(q) /\ is_full_postcode(q)
    THEN FullPostcodeMessage
    ELSE IF StrTruthy(district) /\ ~StrTruthy(street_name)
         THEN BothRequiredMessage
         ELSE None

\* variant: a district or street of blanks only counts as not given
validate_search_input_stripped(q, district, street_name) ==
    IF StrTruthy(q) /\ is_full_postcode(q)
    THEN FullPostcodeMessage
    ELSE IF \/ StrTruthy(Strip(district)) /\ ~StrTruthy(Strip(street_name))
            \/ StrTruthy(Strip(street_name)) /\ ~StrTruthy(Strip(district))
         THEN BothRequiredMessage
         ELSE None

validate_search_input(q, district, street_name) ==
    IF StrTruthy(q) /\ is_full_postcode(q)
    THEN FullPostcodeMessage
    ELSE IF \/ StrTruthy(district) /\ ~StrTruthy(street_name)
            \/ StrTruthy(street_name) /\ ~StrTruthy(district)
         THEN BothRequiredMessage
         ELSE None

(***************************************************************************)
(* Bounds and input sets                                                   *)
(***************************************************************************)
MaxQueryLen == 7

\* the sequences of at most n elements of a set
RECURSIVE ListsUpTo(_, _)
ListsUpTo(elements, n) ==
    IF n = 0 THEN {<<>>}
    ELSE LET shorter == ListsUpTo(elements, n - 1) IN
         shorter \cup {Append(xs, e) : xs \in {x \in shorter : Len(x) = n - 1}, e \in elements}

\* what the district and street fields are given: nothing, a blank, a text
ValidateFields == {<<>>, <<" ">>, <<"B", "1">>}

(***************************************************************************)
(* Specification of the validator: a query is drawn, then validated with   *)
(* a district and a street                                                 *)
(***************************************************************************)
InitValidate ==
    /\ pc = "validate"
    /\ area = <<>>
    \* texts of a letter, a digit, whitespace and punctuation
    /\ query \in ListsUpTo({"B", "1", " ", ","}, MaxQueryLen)
    /\ postcode_district = <<>>
    /\ street = <<>>
    /\ validation = Unset
    /\ api_response = Unset
    /\ parsed = Unset
    /\ val = Unset
    /\ properties = <<>>
    /\ sort_option = Unset
    /\ sorted_results = Unset
    /\ caller = "none"
    /\ requests = <<>>
    /\ code_index = 0
    /\ returned = Unset
    /\ live = Unset
    /\ answered = 0
    /\ mock_changes = {}
    /\ gw_call = Unset
    /\ upstream = Unset
    /\ results = <<>>
    /\ last_search = [area |-> None, query |-> None]
    /\ current_view = "properties"

Validate ==
    /\ pc = "validate"
    /\ \E district \in ValidateFields, street_name \in ValidateFields :
          /\ postcode_district' = district
          /\ street' = street_name
          /\ validation' = validate_search_input(query, district, street_name)
    /\ pc' = "validated"
    /\ UNCHANGED <<area, query, parseVars, val, properties, sortVars, searchVars, sessionVars, gatewayVars, mock_changes, current_view>>

NextValidate == Validate

SpecValidate == InitValidate /\ [][NextValidate]_vars

(***************************************************************************)
(* Claims about the validator                                              *)
(***************************************************************************)
IsErrorMessage(v) == v.t = "text" /\ v.text # ""

ExactlyOneOfPair == (postcode_district # <<>>) # (street # <<>>)

\* C5: whenever exactly one of postcode_district and street_name is
\* non-empty, validate_search_input returns a non-empty error message,
\* whatever the query is.
C5_OneSidedPairRejected ==
    (pc = "validated" /\ ExactlyOneOfPair) => IsErrorMessage(validation)

C5_Witness ==
    /\ pc = "validated"
    /\ postcode_district = <<"B", "1">>
    /\ street = <<>>
    /\ query = <<"B", "B">>
    /\ validation = BothRequiredMessage

\* the shape of a full UK postcode, stated position by position
AllIn(s, from, to, cls) == \A i \in from..to : s[i] \in cls

HasPostcodeShape(core) ==
    \E a \in 1..2, b \in 1..2, c \in 0..1, w \in 1..Len(core) :
        /\ Len(core) = a + b + c + w + 3
        /\ AllIn(core, 1, a, AsciiLetters)
        /\ AllIn(core, a + 1, a + b, DigitChars)
        /\ AllIn(core, a + b + 1, a + b + c, AsciiLetters)
        /\ AllIn(core, a + b + c + 1, a + b + c + w, SpaceChars)
        /\ core[a + b + c + w + 1] \in DigitChars
        /\ AllIn(core, a + b + c + w + 2, a + b + c + w + 3, AsciiLetters)

\* the shape, with any amount of whitespace around it
IsFullPostcodeText(s) ==
    \E lead \in 0..Len(s), trail \in 0..Len(s) :
        /\ lead + trail <= Len(s)
        /\ AllIn(s, 1, lead, SpaceChars)
        /\ AllIn(s, Len(s) - trail + 1, Len(s), SpaceChars)
        /\ HasPostcodeShape(SubSeq(s, lead + 1, Len(s) - trail))

\* a postcode district alone: letters, digits, an optional letter
IsDistrictText(s) ==
    \E a \in 1..2, b \in 1..2, c \in 0..1 :
        /\ Len(s) = a + b + c
        /\ AllIn(s, 1, a, AsciiLetters)
        /\ AllIn(s, a + 1, a + b, DigitChars)
        /\ AllIn(s, a + b + 1, a + b + c, AsciiLetters)

\* an area name: no digit in it, and at least one letter
IsAreaNameText(s) ==
    /\ \E i \in DOMAIN s : s[i] \in AsciiLetters
    /\ \A i \in DOMAIN s : s[i] \notin DigitChars

\* C6: a query of full-postcode shape is rejected with a non-empty message
\* whatever district and street are; a query that is only an area name or
\* only a postcode district, with district and street empty, is accepted.
C6_FullPostcodeRejected ==
    pc = "validated" =>
        /\ IsFullPostcodeText(query) => IsErrorMessage(validation)
        /\ ( /\ IsAreaNameText(query) \/ IsDistrictText(query)
             /\ postcode_district = <<>>
             /\ street = <<>> ) => validation = None

C6_Witness ==
    /\ pc = "validated"
    /\ query = <<" ", "B", "1", " ", "1", "B", "B">>
    /\ postcode_district = <<"B", "1">>
    /\ street = <<"B", "1">>
    /\ validation = FullPostcodeMessage

\* C21: validate_search_input returns an error exactly when the query has
\* the shape of a full postcode or exactly one of district and street is
\* empty; every other input gives None.
C21_ErrorIffRuleApplies ==
    pc = "validated" =>
        (validation = None <=> (~IsFullPostcodeText(query) /\ ~ExactlyOneOfPair))

C21_Witness ==
    /\ pc = "validated"
    /\ query = <<"B", "1", " ", "1", "B">>
    /\ postcode_district = <<" ">>
    /\ street = <<"B", "1">>
    /\ validation = None

(***************************************************************************)
(* sort_properties                                                         *)
(***************************************************************************)
Reverse(xs) == [i \in DOMAIN xs |-> xs[Len(xs) + 1 - i]]

\* insertion of a keyed element behind every element whose key is not greater
RECURSIVE InsertByKey(_, _)
InsertByKey(sorted, e) ==
    IF sorted = <<>> THEN <<e>>
    ELSE IF PyLess(e.key, Head(sorted).key)
         THEN <<e>> \o sorted
         ELSE <<Head(sorted)>> \o InsertByKey(Tail(sorted), e)

\* a stable sort of keyed elements, smallest key first
RECURSIVE SortKeyed(_)
SortKeyed(xs) ==
    IF xs = <<>> THEN <<>>
    ELSE InsertByKey(SortKeyed(SubSeq(xs, 1, Len(xs) - 1)), xs[Len(xs)])

\* sorted(xs, key=Key, reverse=reverse): with reverse the list is reversed,
\* sorted and reversed again, which keeps equal keys in input order
Sorted(xs, Key(_), reverse) ==
    LET keyed == [i \in DOMAIN xs |-> [key |-> Key(xs[i]), value |-> xs[i]]]
        done == IF reverse THEN Reverse(SortKeyed(Reverse(keyed))) ELSE SortKeyed(keyed)
    IN [i \in DOMAIN done |-> done[i].value]

\* x or y
PyOr(x, y) == IF Truthy(x) THEN x ELSE y

\* the key (x.get("current_price") is None, 0): a pair whose second part is
\* constant, so the order is that of its first part, False before True
DefaultKey(x) == PyInt(IF DictGet(x, "current_price", None) = None THEN 1 ELSE 0)

\* the keys x.get(field) or float('inf') and x.get(field) or 0
AscKey(x, field) == PyOr(DictGet(x, field, None), PyInf)
DescKey(x, field) == PyOr(DictGet(x, field, None), PyInt(0))

\* variant: the default view keeps the input order
sort_properties_unpartitioned(props, option) ==
    IF props = <<>> THEN props
    ELSE CASE option = "Default" -> props
           [] option = "Current Price: Low to High" ->
                  Sorted(props, LAMBDA x : AscKey(x, "current_price"), FALSE)
           [] option = "Current Price: High to Low" ->
                  Sorted(props, LAMBDA x : DescKey(x, "current_price"), TRUE)
           [] option = "Future Price: Low to High" ->
                  Sorted(props, LAMBDA x : AscKey(x, "future_price"), FALSE)
           [] option = "Future Price: High to Low" ->
                  Sorted(props, LAMBDA x : DescKey(x, "future_price"), TRUE)
           [] OTHER -> props

sort_properties(props, option) ==
    IF props = <<>> THEN props
    ELSE CASE option = "Default" -> Sorted(props, DefaultKey, FALSE)
           [] option = "Current Price: Low to High" ->
                  Sorted(props, LAMBDA x : AscKey(x, "current_price"), FALSE)
           [] option = "Current Price: High to Low" ->
                  Sorted(props, LAMBDA x : DescKey(x, "current_price"), TRUE)
           [] option = "Future Price: Low to High" ->
                  Sorted(props, LAMBDA x : AscKey(x, "future_price"), FALSE)
           [] option = "Future Price: High to Low" ->
                  Sorted(props, LAMBDA x : DescKey(x, "future_price"), TRUE)
           [] OTHER -> props

(***************************************************************************)
(* Specification of the sort utility: a list and an option are drawn, then *)
(* the list is sorted                                                      *)
(***************************************************************************)
MaxProperties == 3
MaxPrice == 2

SortOptions ==
    { "Default", "Current Price: Low to High", "Current Price: High to Low",
      "Future Price: Low to High", "Future Price: High to Low" }

\* the address tells the records of one list apart
AddressOf(i) == PyStr(<<"N", "o", " ">> \o <<UpperChars[i]>>)

CurrentPrices == {None} \cup {PyInt(n) : n \in 0..MaxPrice}
FuturePrices == {Absent, None, PyInt(0), PyInt(MaxPrice)}

SortRecord(i, cp, fp) ==
    MakeDict([address |-> AddressOf(i), current_price |-> cp, future_price |-> fp])

SortLists(n) ==
    { [i \in DOMAIN xs |-> SortRecord(i, xs[i][1], xs[i][2])] :
        xs \in ListsUpTo(CurrentPrices \X FuturePrices, n) }

InitSort ==
    /\ pc = "sort"
    /\ area = <<>>
    /\ query = <<>>
    /\ postcode_district = <<>>
    /\ street = <<>>
    /\ validation = Unset
    /\ api_response = Unset
    /\ parsed = Unset
    /\ val = Unset
    /\ properties \in SortLists(MaxProperties)
    /\ sort_option \in SortOptions
    /\ sorted_results = Unset
    /\ caller = "none"
    /\ requests = <<>>
    /\ code_index = 0
    /\ returned = Unset
    /\ live = Unset
    /\ answered = 0
    /\ mock_changes = {}
    /\ gw_call = Unset
    /\ upstream = Unset
    /\ results = <<>>
    /\ last_search = [area |-> None, query |-> None]
    /\ current_view = "properties"

Sort ==
    /\ pc = "sort"
    /\ sorted_results' = sort_properties(properties, sort_option)
    /\ pc' = "sorted"
    /\ UNCHANGED <<argVars, validation, parseVars, val, properties, sort_option, searchVars, sessionVars, gatewayVars, mock_changes, current_view>>

NextSort == Sort

SpecSort == InitSort /\ [][NextSort]_vars

(***************************************************************************)
(* Claims about the sort utility                                           *)
(***************************************************************************)
IsPriceOption == sort_option \in SortOptions \ {"Default"}

SortField ==
    IF sort_option \in {"Current Price: Low to High", "Current Price: High to Low"}
    THEN "current_price" ELSE "future_price"

\* a record has the sort key when the field is there and is not None
HasField(x, k) == k \in DOMAIN x /\ x[k] # None

\* C8: with each of the four price options, no record without the sort key
\* stands before a record that has it.
C8_MissingPricesLast ==
    (pc = "sorted" /\ IsPriceOption) =>
        \A i, j \in DOMAIN sorted_results :
            (i < j /\ HasField(sorted_results[j], SortField)) => HasField(sorted_results[i], SortField)

HasCurrent(x) == HasField(x, "current_price")
LacksCurrent(x) == ~HasField(x, "current_price")

\* C9: with "Default" the output is the records with a current price in
\* input order, followed by the records without one in input order.
C9_DefaultPartitionsStable ==
    (pc = "sorted" /\ sort_option = "Default") =>
        sorted_results = SelectSeq(properties, HasCurrent) \o SelectSeq(properties, LacksCurrent)

C9_Witness ==
    /\ pc = "sorted"
    /\ sort_option = "Default"
    /\ Len(properties) = 3
    /\ LacksCurrent(properties[1])
    /\ properties[2].current_price = PyInt(2)
    /\ properties[3].current_price = PyInt(0)
    /\ sorted_results = <<properties[2], properties[3], properties[1]>>

IsAscending == sort_option \in {"Current Price: Low to High", "Future Price: Low to High"}

\* the position of a record in the input list; the addresses tell the
\* records apart
InputPosition(x) == CHOOSE k \in DOMAIN properties : properties[k] = x

\* C22: with each of the four price options the output holds the input
\* records; the records that have the sort key stand in non-decreasing
\* (ascending options) or non-increasing (descending options) order of the
\* key, a key of 0 included; and records of equal key keep their input order.
C22_StableSortOnKey ==
    (pc = "sorted" /\ IsPriceOption) =>
        /\ Len(sorted_results) = Len(properties)
        /\ \A k \in DOMAIN properties : \E i \in DOMAIN sorted_results : sorted_results[i] = properties[k]
        /\ \A i, j \in DOMAIN sorted_results :
              LET x == sorted_results[i]
                  y == sorted_results[j]
              IN /\ (i < j /\ HasField(x, SortField) /\ HasField(y, SortField)) =>
                        IF IsAscending THEN x[SortField].n <= y[SortField].n
                        ELSE x[SortField].n >= y[SortField].n
                 /\ (i < j /\ DictGet(x, SortField, None) = DictGet(y, SortField, None)) =>
                        InputPosition(x) < InputPosition(y)

(***************************************************************************)
(* The upstream gateway (scansan_client.py)                                *)
(***************************************************************************)
\* what the upstream does with a request: the transport fails, or a
\* response arrives with a status and a body that is JSON or is not
NotJson == [t |-> "notjson"]
TransportError == [kind |-> "error"]
Response(status, body) == [kind |-> "response", status |-> status, body |-> body]

\* raise_for_status() raises for the statuses 400..599, which
\* check_http_status turns into False
check_http_status(reply) == ~(reply.status >= 400 /\ reply.status < 600)

\* variant: one of district and street is enough
get_search_params_either(area_name, gbr_district, gbr_street) ==
    IF area_name # None
    THEN PyDict([area_name |-> area_name])
    ELSE IF gbr_district # None \/ gbr_street # None
         THEN PyDict([gbr_district |-> gbr_district, gbr_street |-> gbr_street])
         ELSE None

\* variant: district and street are sent along with the area name
get_search_params_all(area_name, gbr_district, gbr_street) ==
    IF area_name # None
    THEN IF gbr_district # None /\ gbr_street # None
         THEN PyDict([area_name |-> area_name, gbr_district |-> gbr_district, gbr_street |-> gbr_street])
         ELSE PyDict([area_name |-> area_name])
    ELSE IF gbr_district # None /\ gbr_street # None
         THEN PyDict([gbr_district |-> gbr_district, gbr_street |-> gbr_street])
         ELSE None

\* get_search lines 34-45: the query parameters, or None
get_search_params(area_name, gbr_district, gbr_street) ==
    IF area_name # None
    THEN PyDict([area_name |-> area_name])
    ELSE IF gbr_district # None /\ gbr_street # None
         THEN PyDict([gbr_district |-> gbr_district, gbr_street |-> gbr_street])
         ELSE None

\* get_current_valuations lines 138-149: the query parameters, or None
get_current_valuations_params(area_code_postal, area_code) ==
    IF area_code_postal = None /\ area_code = None
    THEN None
    ELSE IF area_code_postal # None
         THEN PyDict([area_code_postal |-> area_code_postal])
         ELSE PyDict([area_code |-> area_code])

\* get_summary lines 74-85
get_summary_params(area_code, area_code_district) ==
    IF area_code = None
    THEN None
    ELSE PyDict(MakeDict([area_code |-> area_code,
                          area_code_district |-> IF area_code_district = None
                                                 THEN Absent ELSE area_code_district]))

\* get_sale_history lines 109-119 and get_historical_valuations lines
\* 169-179 are the code of get_current_valuations
get_sale_history_params(area_code_postal, area_code) ==
    IF area_code_postal = None /\ area_code = None
    THEN None
    ELSE IF area_code_postal # None
         THEN PyDict([area_code_postal |-> area_code_postal])
         ELSE PyDict([area_code |-> area_code])

get_historical_valuations_params(area_code_postal, area_code) ==
    IF area_code_postal = None /\ area_code = None
    THEN None
    ELSE IF area_code_postal # None
         THEN PyDict([area_code_postal |-> area_code_postal])
         ELSE PyDict([area_code |-> area_code])

SearchRequest(params) == [endpoint |-> "search", params |-> params.fields]
ValuationsRequest(params) == [endpoint |-> "current_valuations", params |-> params.fields]

\* what rq.get, check_http_status and response.json() make of the reply:
\* the value the gateway returns, or Raised when the exception of rq.get or
\* of response.json() leaves the gateway
gateway_result(reply) ==
    IF reply.kind = "error" THEN Raised
    ELSE IF ~check_http_status(reply) THEN None
    ELSE IF reply.body = NotJson THEN Raised
    ELSE reply.body

(***************************************************************************)
(* Specification of the gateway: an operation, its arguments and the       *)
(* behaviour of the upstream are drawn, then the operation is called       *)
(***************************************************************************)
GatewayCall(op, args) == [op |-> op, args |-> args]

\* the parameters the called operation derives from its arguments, or None
gateway_params(call) ==
    CASE call.op = "get_search" -> get_search_params(call.args[1], call.args[2], call.args[3])
      [] call.op = "get_summary" -> get_summary_params(call.args[1], call.args[2])
      [] call.op = "get_sale_history" -> get_sale_history_params(call.args[1], call.args[2])
      [] call.op = "get_current_valuations" -> get_current_valuations_params(call.args[1], call.args[2])
      [] call.op = "get_historical_valuations" -> get_historical_valuations_params(call.args[1], call.args[2])

\* the URL constant each operation requests
GatewayEndpoint ==
    [ get_search |-> "search",
      get_summary |-> "summary",
      get_sale_history |-> "sale_history",
      get_current_valuations |-> "current_valuations",
      get_historical_valuations |-> "historical_valuations" ]

\* an argument is left at its default None, or is a str
GatewayArgs == {None, Txt.Empty, Txt.SW9}

GatewayCalls ==
    {GatewayCall("get_search", <<a, d, st>>) : a \in GatewayArgs, d \in GatewayArgs, st \in GatewayArgs}
    \cup {GatewayCall(op, <<a, b>>) :
             op \in DOMAIN GatewayEndpoint \ {"get_search"}, a \in GatewayArgs, b \in GatewayArgs}

GatewayReplies ==
    { TransportError,
      Response(200, PyDict([data |-> PyList(<<>>)])), Response(200, NotJson),
      Response(404, PyDict([data |-> PyList(<<>>)])), Response(404, NotJson),
      Response(503, NotJson) }

InitGateway ==
    /\ pc = "gateway"
    /\ area = <<>>
    /\ query = <<>>
    /\ postcode_district = <<>>
    /\ street = <<>>
    /\ validation = Unset
    /\ api_response = Unset
    /\ parsed = Unset
    /\ val = Unset
    /\ properties = <<>>
    /\ sort_option = Unset
    /\ sorted_results = Unset
    /\ caller = "none"
    /\ requests = <<>>
    /\ code_index = 0
    /\ returned = Unset
    /\ live = Unset
    /\ answered = 0
    /\ mock_changes = {}
    /\ gw_call \in GatewayCalls
    /\ upstream \in GatewayReplies
    /\ results = <<>>
    /\ last_search = [area |-> None, query |-> None]
    /\ current_view = "properties"

\* the operation returns None before any request when its identifiers are
\* missing; otherwise it issues its one request and returns what
\* check_http_status and response.json() make of the reply
Gateway ==
    /\ pc = "gateway"
    /\ LET params == gateway_params(gw_call) IN
       IF params = None
       THEN /\ requests' = <<>>
            /\ answered' = 0
            /\ api_response' = None
       ELSE /\ requests' = <<[endpoint |-> GatewayEndpoint[gw_call.op], params |-> params.fields]>>
            /\ answered' = 1
            /\ api_response' = gateway_result(upstream)
    /\ pc' = "gateway_done"
    /\ UNCHANGED <<argVars, validation, parsed, val, properties, sortVars,
                   caller, code_index, returned, live, sessionVars, gatewayVars, mock_changes, current_view>>

NextGateway == Gateway

SpecGateway == InitGateway /\ [][NextGateway]_vars

(***************************************************************************)
(* Claims about the gateway                                                *)
(***************************************************************************)
\* the upstream did not answer with a 2xx status and a JSON body
UpstreamFailed ==
    \/ upstream.kind = "error"
    \/ upstream.status \notin 200..299
    \/ upstream.body = NotJson

\* C13: no gateway operation raises to its caller: a transport failure, a
\* non-2xx status and a body that is no JSON each give None.
C13_GatewayNeverRaises ==
    pc = "gateway_done" =>
        /\ api_response # Raised
        /\ (requests # <<>> /\ UpstreamFailed) => api_response = None

\* the identifiers the operation requires were not passed
IdentifiersAbsent ==
    CASE gw_call.op = "get_search" ->
             gw_call.args[1] = None /\ ~(gw_call.args[2] # None /\ gw_call.args[3] # None)
      [] gw_call.op = "get_summary" -> gw_call.args[1] = None
      [] OTHER -> gw_call.args[1] = None /\ gw_call.args[2] = None

\* C14: an operation called without the identifiers it requires returns
\* None and issues no request.
C14_AbsentIdentifiersNoRequest ==
    (pc = "gateway_done" /\ IdentifiersAbsent) =>
        (api_response = None /\ requests = <<>>)

C14_Witness ==
    /\ pc = "gateway_done"
    /\ gw_call = GatewayCall("get_search", <<None, Txt.SW9, None>>)
    /\ upstream = Response(200, PyDict([data |-> PyList(<<>>)]))
    /\ api_response = None
    /\ requests = <<>>

(***************************************************************************)
(* Building a property record from one valuation entry                     *)
(* (the body of the inner loop of search_properties_from_api)              *)
(***************************************************************************)
RECURSIVE SumInts(_)
SumInts(xs) == IF xs = <<>> THEN 0 ELSE Head(xs).n + SumInts(Tail(xs))

\* variant: the mean of all elements of the range
current_price_mean(bounded_valuation, last_sold_price) ==
    IF Truthy(bounded_valuation) /\ Len(bounded_valuation.items) > 0
    THEN IF Len(bounded_valuation.items) >= 2
         THEN PyInt(SumInts(bounded_valuation.items) \div Len(bounded_valuation.items))
         ELSE bounded_valuation.items[1]
    ELSE IF Truthy(last_sold_price) THEN last_sold_price ELSE None

\* current_price of lines 169-177; // is floor division, as \div is
current_price_of(bounded_valuation, last_sold_price) ==
    IF Truthy(bounded_valuation) /\ Len(bounded_valuation.items) > 0
    THEN IF Len(bounded_valuation.items) >= 2
         THEN PyInt((bounded_valuation.items[1].n
                       + bounded_valuation.items[Len(bounded_valuation.items)].n) \div 2)
         ELSE bounded_valuation.items[1]
    ELSE IF Truthy(last_sold_price) THEN last_sold_price ELSE None

\* variant: the ward is preferred to the borough
area_label_ward_first(boroughs, wards, a) ==
    IF wards # <<>> THEN wards[1] ELSE IF boroughs # <<>> THEN boroughs[1] ELSE PyStr(a)

\* boroughs[0] if boroughs else (wards[0] if wards else area)
area_label(boroughs, wards, a) ==
    IF boroughs # <<>> THEN boroughs[1] ELSE IF wards # <<>> THEN wards[1] ELSE PyStr(a)

PropertyIn == <<"P","r","o","p","e","r","t","y"," ","i","n"," ">>

\* the dict appended to `properties` for the entry v of the area code
build_property(v, area_code, label) ==
    [ address |-> DictGet(v.fields, "property_address", PyStr(PropertyIn \o area_code.s)),
      postcode |-> area_code,
      area |-> label,
      current_price |-> current_price_of(DictGet(v.fields, "bounded_valuation", PyList(<<>>)),
                                         DictGet(v.fields, "last_sold_price", None)),
      future_price |-> None,
      last_sold_price |-> DictGet(v.fields, "last_sold_price", None),
      last_sold_date |-> DictGet(v.fields, "last_sold_date", PyStr(<<>>)),
      score |-> None ]

(***************************************************************************)
(* Specification of the record builder: a valuation entry is drawn, then   *)
(* the record is built for an area code                                    *)
(***************************************************************************)
MaxValuationLen == 3

\* the entries of a valuations payload: each key may be missing, null or set
ValuationEntries(len) ==
    { PyDict(MakeDict([property_address |-> pa, bounded_valuation |-> bv,
                       last_sold_price |-> lsp, last_sold_date |-> lsd])) :
        pa \in {Absent, None, Txt.Address},
        bv \in {Absent, None} \cup {PyList(xs) : xs \in ListsUpTo({PyInt(n) : n \in 0..MaxPrice}, len)},
        lsp \in {Absent, None} \cup {PyInt(n) : n \in 0..MaxPrice},
        lsd \in {Absent, Txt.Date} }

InitPrice ==
    /\ pc = "build"
    /\ area = Chars.London
    /\ query = <<>>
    /\ postcode_district = <<>>
    /\ street = <<>>
    /\ validation = Unset
    /\ api_response = Unset
    /\ parsed = Unset
    /\ val \in ValuationEntries(MaxValuationLen)
    /\ properties = <<>>
    /\ sort_option = Unset
    /\ sorted_results = Unset
    /\ caller = "none"
    /\ requests = <<>>
    /\ code_index = 0
    /\ returned = Unset
    /\ live = Unset
    /\ answered = 0
    /\ mock_changes = {}
    /\ gw_call = Unset
    /\ upstream = Unset
    /\ results = <<>>
    /\ last_search = [area |-> None, query |-> None]
    /\ current_view = "properties"

\* lines 157-188 for one area code and one entry of its valuations
BuildProperty ==
    /\ pc = "build"
    /\ \E area_code \in {Txt.SW9, Txt.SE1} :
          /\ requests' = <<ValuationsRequest(get_current_valuations_params(None, area_code))>>
          /\ answered' = 1
          /\ properties' = Append(properties, build_property(val, area_code, area_label(<<>>, <<>>, area)))
    /\ pc' = "built"
    /\ UNCHANGED <<argVars, validation, parseVars, val, sortVars,
                   caller, code_index, returned, live, sessionVars, gatewayVars, mock_changes, current_view>>

NextPrice == BuildProperty

SpecPrice == InitPrice /\ [][NextPrice]_vars

(***************************************************************************)
(* Claims about the derived current price                                  *)
(***************************************************************************)
\* the list of the entry's bounded_valuation, empty when the key is missing or null
ValuationRange ==
    LET bv == DictGet(val.fields, "bounded_valuation", None) IN
    IF bv.t = "list" THEN bv.items ELSE <<>>

LastSold == DictGet(val.fields, "last_sold_price", None)

BuiltPrice == properties[1].current_price

\* C3: a range of two or more elements gives floor((first + last) / 2), a
\* range of one element gives that element, and an empty or missing range
\* with no last_sold_price gives None.
C3_CurrentPriceFromRange ==
    pc = "built" =>
        LET v == ValuationRange IN
        /\ Len(v) >= 2 =>
              /\ BuiltPrice.t = "int"
              /\ 2 * BuiltPrice.n <= v[1].n + v[Len(v)].n
              /\ v[1].n + v[Len(v)].n < 2 * BuiltPrice.n + 2
        /\ Len(v) = 1 => BuiltPrice = v[1]
        /\ (Len(v) = 0 /\ LastSold = None) => BuiltPrice = None

C3_Witness ==
    /\ pc = "built"
    /\ ValuationRange = <<PyInt(1), PyInt(0), PyInt(2)>>
    /\ BuiltPrice = PyInt(1)

\* C4: with an empty or missing range, a last_sold_price that is present
\* (any integer, 0 included) is the current price, and the current price is
\* None only when last_sold_price is missing.
C4_FallsBackToLastSold ==
    (pc = "built" /\ Len(ValuationRange) = 0) =>
        /\ LastSold # None => BuiltPrice = LastSold
        /\ BuiltPrice = None => LastSold = None

\* the property_address of the entry, None when the upstream sends none
SuppliedAddress == DictGet(val.fields, "property_address", None)

\* C18: a record has the area code of the valuations call that produced it
\* as postcode, and a string address: the property_address of the upstream
\* when there is one, otherwise "Property in {area code}".
C18_PostcodeAndAddress ==
    pc = "built" =>
        LET r == properties[1] IN
        /\ r.postcode = requests[1].params.area_code
        /\ r.address.t = "str"
        /\ IF SuppliedAddress # None
           THEN r.address = SuppliedAddress
           ELSE r.address = PyStr(PropertyIn \o r.postcode.s)

(***************************************************************************)
(* parse_api_search_response                                               *)
(***************************************************************************)
EmptyResult(search_query, search_found) ==
    [ t |-> "result",
      search_query |-> search_query,
      search_found |-> search_found,
      area_codes |-> <<>>,
      boroughs |-> <<>>,
      wards |-> <<>>,
      streets |-> <<>>,
      postcodes |-> <<>> ]

\* variant: an area code that was already found is not added again
ExtractAreaCodes_dedup(item, result) ==
    LET area_code_info == DictGet(item.fields, "area_code", PyDict(<<>>)) IN
    IF Truthy(area_code_info) /\ area_code_info.t = "dict"
    THEN LET area_code_list == DictGet(area_code_info.fields, "area_code_list", PyList(<<>>))
             district == DictGet(area_code_info.fields, "area_code_district", None)
             IsNew(c) == \A i \in DOMAIN result.area_codes : result.area_codes[i] # c
             r == IF area_code_list.t = "list"
                  THEN [result EXCEPT !.area_codes = @ \o SelectSeq(area_code_list.items, IsNew)]
                  ELSE result
         IN IF Truthy(district) THEN [r EXCEPT !.postcodes = Append(@, district)] ELSE r
    ELSE result

\* lines 79-88: the area codes and the district of one item
ExtractAreaCodes(item, result) ==
    LET area_code_info == DictGet(item.fields, "area_code", PyDict(<<>>)) IN
    IF Truthy(area_code_info) /\ area_code_info.t = "dict"
    THEN LET area_code_list == DictGet(area_code_info.fields, "area_code_list", PyList(<<>>))
             district == DictGet(area_code_info.fields, "area_code_district", None)
             r == IF area_code_list.t = "list"
                  THEN [result EXCEPT !.area_codes = @ \o area_code_list.items]
                  ELSE result
         IN IF Truthy(district) THEN [r EXCEPT !.postcodes = Append(@, district)] ELSE r
    ELSE result

\* lines 90-98: the boroughs and wards of one item
ExtractBoroughs(item, result) ==
    LET boroughs == DictGet(item.fields, "borough", PyList(<<>>)) IN
    IF Truthy(boroughs) /\ boroughs.t = "list"
    THEN [result EXCEPT !.boroughs = @ \o boroughs.items]
    ELSE result

ExtractWards(item, result) ==
    LET wards == DictGet(item.fields, "ward", PyList(<<>>)) IN
    IF Truthy(wards) /\ wards.t = "list"
    THEN [result EXCEPT !.wards = @ \o wards.items]
    ELSE result

\* lines 100-105: the streets of one item
ExtractStreets(item, result) ==
    LET street_info == DictGet(item.fields, "street", PyDict(<<>>)) IN
    IF Truthy(street_info) /\ street_info.t = "dict"
    THEN LET street_list == DictGet(street_info.fields, "street_list", PyList(<<>>)) IN
         IF Truthy(street_list) /\ street_list.t = "list"
         THEN [result EXCEPT !.streets = @ \o street_list.items]
         ELSE result
    ELSE result

\* lines 75-105: the inner loop; an item that is not a dict is skipped
RECURSIVE ParseItems(_, _)
ParseItems(items, result) ==
    IF items = <<>> THEN result
    ELSE LET item == Head(items) IN
         IF item.t # "dict"
         THEN ParseItems(Tail(items), result)
         ELSE ParseItems(Tail(items),
                         ExtractStreets(item, ExtractWards(item, ExtractBoroughs(item, ExtractAreaCodes(item, result)))))

\* variant: an outer element that is neither list nor dict ends the loop
RECURSIVE ParseOuter_break(_, _)
ParseOuter_break(data, result) ==
    IF data = <<>> THEN result
    ELSE LET outer_item == Head(data) IN
         CASE outer_item.t = "list" -> ParseOuter_break(Tail(data), ParseItems(outer_item.items, result))
           [] outer_item.t = "dict" -> ParseOuter_break(Tail(data), ParseItems(<<outer_item>>, result))
           [] OTHER -> result

\* lines 66-73: the outer loop; a list is iterated, a dict is a list of one,
\* anything else is skipped
RECURSIVE ParseOuter(_, _)
ParseOuter(data, result) ==
    IF data = <<>> THEN result
    ELSE LET outer_item == Head(data) IN
         CASE outer_item.t = "list" -> ParseOuter(Tail(data), ParseItems(outer_item.items, result))
           [] outer_item.t = "dict" -> ParseOuter(Tail(data), ParseItems(<<outer_item>>, result))
           [] OTHER -> ParseOuter(Tail(data), result)

\* the value returned; no statement of the function raises on a value
\* that JSON can hold
parse_api_search_response(response) ==
    IF ~Truthy(response) THEN None
    ELSE IF response.t # "dict" THEN None
    ELSE LET result == EmptyResult(DictGet(response.fields, "search_query", PyStr(<<>>)),
                                   DictGet(response.fields, "search_found", PyStr(<<>>)))
             data == DictGet(response.fields, "data", PyList(<<>>))
         IN IF data.t # "list" THEN result ELSE ParseOuter(data.items, result)

(***************************************************************************)
(* Specification of the parser: a payload is drawn, then parsed            *)
(***************************************************************************)
MaxData == 2

\* what the field area_code of an item may hold
AreaCodeShapes ==
    { Absent, None, Txt.SW9, PyDict(<<>>),
      PyDict([area_code_district |-> Txt.SW9]),
      PyDict([area_code_district |-> Txt.SW9, area_code_list |-> Txt.SW9]),
      PyDict([area_code_district |-> Txt.Empty, area_code_list |-> PyList(<<Txt.SW9>>)]),
      PyDict([area_code_list |-> PyList(<<>>)]),
      PyDict([area_code_district |-> Txt.SE1, area_code_count |-> PyInt(2),
              area_code_list |-> PyList(<<Txt.SE1, Txt.SW2>>)]) }

FullAreaCode == PyDict([area_code_district |-> Txt.SW9, area_code_count |-> PyInt(2),
                        area_code_list |-> PyList(<<Txt.SW9, Txt.SW2>>)])

\* what the fields borough and ward of an item may hold
NameListShapes(name) == {Absent, None, name, PyList(<<>>), PyInt(1)}

\* what the field street of an item may hold
StreetShapes ==
    { Absent, None, PyList(<<Txt.Elm>>), PyDict([street_count |-> PyInt(0)]),
      PyDict([street_list |-> None]), PyDict([street_list |-> Txt.Elm]) }

FullStreet == PyDict([street_count |-> PyInt(1), street_list |-> PyList(<<Txt.Elm>>)])

Item(ac, b, w, st) == PyDict(MakeDict([area_code |-> ac, borough |-> b, ward |-> w, street |-> st]))

FullItem == Item(FullAreaCode, PyList(<<Txt.Lambeth>>), PyList(<<Txt.Brixton>>), FullStreet)

\* the well-formed item, the empty item, and the items with one field
\* missing or of the wrong type
Items ==
    {FullItem, Item(Absent, Absent, Absent, Absent)}
    \cup {Item(ac, PyList(<<Txt.Lambeth>>), PyList(<<Txt.Brixton>>), FullStreet) : ac \in AreaCodeShapes}
    \cup {Item(FullAreaCode, b, PyList(<<Txt.Brixton>>), FullStreet) : b \in NameListShapes(Txt.Lambeth)}
    \cup {Item(FullAreaCode, PyList(<<Txt.Lambeth>>), w, FullStreet) : w \in NameListShapes(Txt.Brixton)}
    \cup {Item(FullAreaCode, PyList(<<Txt.Lambeth>>), PyList(<<Txt.Brixton>>), st) : st \in StreetShapes}

\* the elements of `data`: items, lists of items (with elements that are
\* no items among them), and values that are neither
OuterElements ==
    Items
    \cup {PyList(<<i>>) : i \in Items}
    \cup {PyList(<<>>), PyList(<<None, FullItem>>), PyList(<<Txt.SW9, FullItem, PyInt(1)>>)}
    \cup {None, Txt.SW9, PyInt(1)}

\* the payloads: values that are no mapping, mappings without a usable
\* `data`, and mappings with a `data` list of at most n elements
Responses(n) ==
    {None, Txt.Empty, Txt.Brixton, PyInt(0), PyInt(1), PyList(<<>>), PyList(<<FullItem>>), PyDict(<<>>)}
    \cup {PyDict([search_query |-> Txt.Brixton, search_found |-> Txt.ward])}
    \cup {PyDict([search_query |-> Txt.Brixton, data |-> d]) : d \in {None, Txt.SW9, FullItem}}
    \cup {PyDict([data |-> PyList(xs)]) : xs \in ListsUpTo(OuterElements, n)}

InitParse ==
    /\ pc = "parse"
    /\ area = <<>>
    /\ query = <<>>
    /\ postcode_district = <<>>
    /\ street = <<>>
    /\ validation = Unset
    /\ api_response \in Responses(MaxData)
    /\ parsed = Unset
    /\ val = Unset
    /\ properties = <<>>
    /\ sort_option = Unset
    /\ sorted_results = Unset
    /\ caller = "none"
    /\ requests = <<>>
    /\ code_index = 0
    /\ returned = Unset
    /\ live = Unset
    /\ answered = 0
    /\ mock_changes = {}
    /\ gw_call = Unset
    /\ upstream = Unset
    /\ results = <<>>
    /\ last_search = [area |-> None, query |-> None]
    /\ current_view = "properties"

Parse ==
    /\ pc = "parse"
    /\ parsed' = parse_api_search_response(api_response)
    /\ pc' = "parsed"
    /\ UNCHANGED <<argVars, validation, api_response, val, properties, sortVars, searchVars, sessionVars, gatewayVars, mock_changes, current_view>>

NextParse == Parse

SpecParse == InitParse /\ [][NextParse]_vars

(***************************************************************************)
(* Claims about the parser                                                 *)
(***************************************************************************)
IsResultObject(r) == r.t = "result"

IsAllEmpty(r) ==
    /\ r.area_codes = <<>>
    /\ r.boroughs = <<>>
    /\ r.wards = <<>>
    /\ r.streets = <<>>
    /\ r.postcodes = <<>>

\* C1: for every search response value the parser returns, without
\* raising, a result object with its five list fields.
C1_ParseReturnsResultObject ==
    pc = "parsed" => (parsed # Raised /\ IsResultObject(parsed))

\* the input is absent, empty or not a mapping
NotAMapping(v) == v.t # "dict" \/ DOMAIN v.fields = {}

\* C2: when the input is absent, empty or not a mapping, the parser
\* returns a result object with five empty sequences, not a null value.
C2_NonMappingGivesEmptyResult ==
    (pc = "parsed" /\ NotAMapping(api_response)) =>
        (IsResultObject(parsed) /\ IsAllEmpty(parsed))

\* the payload is a mapping whose `data` is a list
HasDataList ==
    /\ api_response.t = "dict"
    /\ "data" \in DOMAIN api_response.fields
    /\ api_response.fields.data.t = "list"

\* the item mappings of `data` in the order of discovery: outer element by
\* outer element, and within a list element by element
RECURSIVE ItemsInOrder(_)
ItemsInOrder(data) ==
    IF data = <<>> THEN <<>>
    ELSE LET x == Head(data)
             rest == ItemsInOrder(Tail(data))
         IN CASE x.t = "list" -> SelectSeq(x.items, LAMBDA y : y.t = "dict") \o rest
              [] x.t = "dict" -> <<x>> \o rest
              [] OTHER -> rest

\* the payload with another `data`
WithData(data) == PyDict([api_response.fields EXCEPT !.data = PyList(data)])

\* C19: the nesting of `data` does not matter.  The payload gives the same
\* result as its items in a flat list, as its items each in a list of its
\* own, and as its items in one list; so an element that is no list and no
\* mapping, and an inner element that is no mapping, adds nothing and stops
\* nothing.
C19_NestingInsensitive ==
    (pc = "parsed" /\ HasDataList) =>
        LET items == ItemsInOrder(api_response.fields.data.items) IN
        /\ parsed = parse_api_search_response(WithData(items))
        /\ parsed = parse_api_search_response(WithData([i \in DOMAIN items |-> PyList(<<items[i]>>)]))
        /\ parsed = parse_api_search_response(WithData(<<PyList(items)>>))

C19_Witness ==
    /\ pc = "parsed"
    /\ api_response = PyDict([data |-> PyList(<<PyInt(1), PyList(<<Txt.SW9, FullItem, PyInt(1)>>)>>)])
    /\ parsed.area_codes = <<Txt.SW9, Txt.SW2>>
    /\ parsed = parse_api_search_response(PyDict([data |-> PyList(<<FullItem>>)]))

RECURSIVE Flatten(_)
Flatten(ss) == IF ss = <<>> THEN <<>> ELSE Head(ss) \o Flatten(Tail(ss))

\* area_code.area_code_list of an item, empty when there is none
CodesOf(item) ==
    LET ac == DictGet(item.fields, "area_code", None)
        list == IF ac.t = "dict" THEN DictGet(ac.fields, "area_code_list", None) ELSE None
    IN IF list.t = "list" THEN list.items ELSE <<>>

\* area_code.area_code_district of an item, when it has one
DistrictOf(item) ==
    LET ac == DictGet(item.fields, "area_code", None)
        district == IF ac.t = "dict" THEN DictGet(ac.fields, "area_code_district", None) ELSE None
    IN IF district \in {None, Txt.Empty} THEN <<>> ELSE <<district>>

\* C20: area_codes is the concatenation of the area_code_list of every
\* item in the order of discovery, duplicates kept; postcodes holds the
\* district of every item that has one, in the same order.
C20_AreaCodesInDiscoveryOrder ==
    (pc = "parsed" /\ HasDataList) =>
        LET items == ItemsInOrder(api_response.fields.data.items) IN
        /\ parsed.area_codes = Flatten([i \in DOMAIN items |-> CodesOf(items[i])])
        /\ parsed.postcodes = Flatten([i \in DOMAIN items |-> DistrictOf(items[i])])
        /\ Len(parsed.postcodes) <= Len(items)

C20_Witness ==
    /\ pc = "parsed"
    /\ api_response.t = "dict"
    /\ parsed.t = "result"
    /\ parsed.area_codes = <<Txt.SE1, Txt.SW2, Txt.SW9, Txt.SW2>>
    /\ parsed.postcodes = <<Txt.SE1, Txt.SW9>>

(***************************************************************************)
(* The resolver (search_properties_from_api, search_properties)            *)
(***************************************************************************)
AreaCodeLimit == 6
ValuationLimit == 3
MockMixLimit == 6

Placeholders == {Chars.Anywhere, Chars.Any, <<>>}

\* AREA_PROPERTIES, in the order of the dict literal
AREA_PROPERTIES ==
    <<
    [ name |-> <<"L","o","n","d","o","n">>,
      props |-> <<
        [ address |-> PyStr(<<"4","2"," ","B","a","k","e","r"," ","S","t","r","e","e","t",","," ","W","1","U"," ","3","B","W">>),
          area |-> PyStr(<<"L","o","n","d","o","n">>), score |-> PyInt(85), current_price |-> PyInt(850000) ],
        [ address |-> PyStr(<<"1","5"," ","A","b","b","e","y"," ","R","o","a","d",","," ","N","W","8"," ","9","A","Y">>),
          area |-> PyStr(<<"L","o","n","d","o","n">>), score |-> PyInt(78), current_price |-> PyInt(720000) ],
        [ address |-> PyStr(<<"2","2","1","B"," ","B","a","k","e","r"," ","S","t","r","e","e","t",","," ","N","W","1"," ","6","X","E">>),
          area |-> PyStr(<<"L","o","n","d","o","n">>), score |-> PyInt(92), current_price |-> PyInt(1200000) ] >> ],
    [ name |-> <<"M","a","n","c","h","e","s","t","e","r">>,
      props |-> <<
        [ address |-> PyStr(<<"1","2"," ","D","e","a","n","s","g","a","t","e",","," ","M","3"," ","2","B","Y">>),
          area |-> PyStr(<<"M","a","n","c","h","e","s","t","e","r">>), score |-> PyInt(73), current_price |-> PyInt(450000) ],
        [ address |-> PyStr(<<"8","8"," ","O","x","f","o","r","d"," ","R","o","a","d",","," ","M","1"," ","5","N","H">>),
          area |-> PyStr(<<"M","a","n","c","h","e","s","t","e","r">>), score |-> PyInt(68), current_price |-> PyInt(380000) ],
        [ address |-> PyStr(<<"5"," ","P","i","c","c","a","d","i","l","l","y",","," ","M","1"," ","1","R","G">>),
          area |-> PyStr(<<"M","a","n","c","h","e","s","t","e","r">>), score |-> PyInt(81), current_price |-> PyInt(520000) ] >> ],
    [ name |-> <<"B","i","r","m","i","n","g","h","a","m">>,
      props |-> <<
        [ address |-> PyStr(<<"3","4"," ","N","e","w"," ","S","t","r","e","e","t",","," ","B","2"," ","4","R","H">>),
          area |-> PyStr(<<"B","i","r","m","i","n","g","h","a","m">>), score |-> PyInt(70), current_price |-> PyInt(320000) ],
        [ address |-> PyStr(<<"1","9"," ","B","r","o","a","d"," ","S","t","r","e","e","t",","," ","B","1"," ","2","H","F">>),
          area |-> PyStr(<<"B","i","r","m","i","n","g","h","a","m">>), score |-> PyInt(65), current_price |-> PyInt(290000) ],
        [ address |-> PyStr(<<"7"," ","C","o","r","p","o","r","a","t","i","o","n"," ","S","t","r","e","e","t",","," ","B","4"," ","6","Q","B">>),
          area |-> PyStr(<<"B","i","r","m","i","n","g","h","a","m">>), score |-> PyInt(77), current_price |-> PyInt(410000) ] >> ],
    [ name |-> <<"L","e","e","d","s">>,
      props |-> <<
        [ address |-> PyStr(<<"2","5"," ","B","r","i","g","g","a","t","e",","," ","L","S","1"," ","6","H","D">>),
          area |-> PyStr(<<"L","e","e","d","s">>), score |-> PyInt(74), current_price |-> PyInt(340000) ],
        [ address |-> PyStr(<<"1","0"," ","T","h","e"," ","H","e","a","d","r","o","w",","," ","L","S","1"," ","8","T","L">>),
          area |-> PyStr(<<"L","e","e","d","s">>), score |-> PyInt(69), current_price |-> PyInt(295000) ],
        [ address |-> PyStr(<<"1","8"," ","P","a","r","k"," ","R","o","w",","," ","L","S","1"," ","5","H","N">>),
          area |-> PyStr(<<"L","e","e","d","s">>), score |-> PyInt(80), current_price |-> PyInt(420000) ] >> ],
    [ name |-> <<"G","l","a","s","g","o","w">>,
      props |-> <<
        [ address |-> PyStr(<<"4","5"," ","B","u","c","h","a","n","a","n"," ","S","t","r","e","e","t",","," ","G","1"," ","3","H","L">>),
          area |-> PyStr(<<"G","l","a","s","g","o","w">>), score |-> PyInt(76), current_price |-> PyInt(310000) ],
        [ address |-> PyStr(<<"8"," ","S","a","u","c","h","i","e","h","a","l","l"," ","S","t","r","e","e","t",","," ","G","2"," ","3","J","D">>),
          area |-> PyStr(<<"G","l","a","s","g","o","w">>), score |-> PyInt(71), current_price |-> PyInt(275000) ],
        [ address |-> PyStr(<<"2","2"," ","G","e","o","r","g","e"," ","S","q","u","a","r","e",","," ","G","2"," ","1","D","S">>),
          area |-> PyStr(<<"G","l","a","s","g","o","w">>), score |-> PyInt(83), current_price |-> PyInt(480000) ] >> ],
    [ name |-> <<"E","d","i","n","b","u","r","g","h">>,
      props |-> <<
        [ address |-> PyStr(<<"1","0","1"," ","P","r","i","n","c","e","s"," ","S","t","r","e","e","t",","," ","E","H","2"," ","3","A","A">>),
          area |-> PyStr(<<"E","d","i","n","b","u","r","g","h">>), score |-> PyInt(88), current_price |-> PyInt(650000) ],
        [ address |-> PyStr(<<"1","2"," ","R","o","y","a","l"," ","M","i","l","e",","," ","E","H","1"," ","1","T","B">>),
          area |-> PyStr(<<"E","d","i","n","b","u","r","g","h">>), score |-> PyInt(90), current_price |-> PyInt(780000) ],
        [ address |-> PyStr(<<"7"," ","G","r","a","s","s","m","a","r","k","e","t",","," ","E","H","1"," ","2","H","S">>),
          area |-> PyStr(<<"E","d","i","n","b","u","r","g","h">>), score |-> PyInt(79), current_price |-> PyInt(520000) ] >> ],
    [ name |-> <<"B","r","i","s","t","o","l">>,
      props |-> <<
        [ address |-> PyStr(<<"3","3"," ","P","a","r","k"," ","S","t","r","e","e","t",","," ","B","S","1"," ","5","N","H">>),
          area |-> PyStr(<<"B","r","i","s","t","o","l">>), score |-> PyInt(75), current_price |-> PyInt(385000) ],
        [ address |-> PyStr(<<"1","4"," ","C","l","i","f","t","o","n"," ","D","o","w","n",","," ","B","S","8"," ","3","L","T">>),
          area |-> PyStr(<<"B","r","i","s","t","o","l">>), score |-> PyInt(82), current_price |-> PyInt(490000) ],
        [ address |-> PyStr(<<"9"," ","W","h","i","t","e","l","a","d","i","e","s"," ","R","o","a","d",","," ","B","S","8"," ","2","P","H">>),
          area |-> PyStr(<<"B","r","i","s","t","o","l">>), score |-> PyInt(72), current_price |-> PyInt(355000) ] >> ],
    [ name |-> <<"L","i","v","e","r","p","o","o","l">>,
      props |-> <<
        [ address |-> PyStr(<<"2","1"," ","B","o","l","d"," ","S","t","r","e","e","t",","," ","L","1"," ","4","D","J">>),
          area |-> PyStr(<<"L","i","v","e","r","p","o","o","l">>), score |-> PyInt(73), current_price |-> PyInt(285000) ],
        [ address |-> PyStr(<<"1","6"," ","L","i","m","e"," ","S","t","r","e","e","t",","," ","L","1"," ","1","J","Q">>),
          area |-> PyStr(<<"L","i","v","e","r","p","o","o","l">>), score |-> PyInt(68), current_price |-> PyInt(240000) ],
        [ address |-> PyStr(<<"5"," ","H","o","p","e"," ","S","t","r","e","e","t",","," ","L","1"," ","9","B","Q">>),
          area |-> PyStr(<<"L","i","v","e","r","p","o","o","l">>), score |-> PyInt(80), current_price |-> PyInt(365000) ] >> ],
    [ name |-> <<"C","a","r","d","i","f","f">>,
      props |-> <<
        [ address |-> PyStr(<<"1","8"," ","Q","u","e","e","n"," ","S","t","r","e","e","t",","," ","C","F","1","0"," ","2","B","U">>),
          area |-> PyStr(<<"C","a","r","d","i","f","f">>), score |-> PyInt(74), current_price |-> PyInt(295000) ],
        [ address |-> PyStr(<<"7"," ","S","t"," ","M","a","r","y"," ","S","t","r","e","e","t",","," ","C","F","1","0"," ","1","A","T">>),
          area |-> PyStr(<<"C","a","r","d","i","f","f">>), score |-> PyInt(69), current_price |-> PyInt(260000) ],
        [ address |-> PyStr(<<"2","5"," ","C","a","t","h","e","d","r","a","l"," ","R","o","a","d",","," ","C","F","1","1"," ","9","L","L">>),
          area |-> PyStr(<<"C","a","r","d","i","f","f">>), score |-> PyInt(81), current_price |-> PyInt(420000) ] >> ],
    [ name |-> <<"B","e","l","f","a","s","t">>,
      props |-> <<
        [ address |-> PyStr(<<"1","2"," ","R","o","y","a","l"," ","A","v","e","n","u","e",","," ","B","T","1"," ","1","D","A">>),
          area |-> PyStr(<<"B","e","l","f","a","s","t">>), score |-> PyInt(72), current_price |-> PyInt(245000) ],
        [ address |-> PyStr(<<"8"," ","D","o","n","e","g","a","l","l"," ","P","l","a","c","e",","," ","B","T","1"," ","5","A","J">>),
          area |-> PyStr(<<"B","e","l","f","a","s","t">>), score |-> PyInt(67), current_price |-> PyInt(215000) ],
        [ address |-> PyStr(<<"3","1"," ","B","o","t","a","n","i","c"," ","A","v","e","n","u","e",","," ","B","T","7"," ","1","J","G">>),
          area |-> PyStr(<<"B","e","l","f","a","s","t">>), score |-> PyInt(78), current_price |-> PyInt(310000) ] >> ]
    >>

\* the records of the table have a position: the area and the place in its list
MockPositions == {<<t, j>> : t \in DOMAIN AREA_PROPERTIES, j \in 1..3}

\* AREA_PROPERTIES as it stands: the module creates it once at import, and a
\* record changed in place stays changed
MockTable ==
    [t \in DOMAIN AREA_PROPERTIES |->
        [ name |-> AREA_PROPERTIES[t].name,
          props |-> [j \in DOMAIN AREA_PROPERTIES[t].props |->
                        IF \E c \in mock_changes : c.pos = <<t, j>>
                        THEN (CHOOSE c \in mock_changes : c.pos = <<t, j>>).record
                        ELSE AREA_PROPERTIES[t].props[j]] ]]

NoCall == [t |-> "nocall"]

\* variant: the free-text query is looked at before the district and street
search_mode_query_first(a, q, district, street_name) ==
    IF StrTruthy(q)
    THEN get_search_params(PyStr(Strip(q)), None, None)
    ELSE IF StrTruthy(district) /\ StrTruthy(street_name)
         THEN get_search_params(None, PyStr(Upper(Strip(district))), PyStr(Strip(street_name)))
         ELSE IF StrTruthy(a) /\ a \notin Placeholders
              THEN get_search_params(PyStr(Strip(a)), None, None)
              ELSE NoCall

\* variant: the selected area is sent whenever it is not empty
search_mode_any_area(a, q, district, street_name) ==
    IF StrTruthy(district) /\ StrTruthy(street_name)
    THEN get_search_params(None, PyStr(Upper(Strip(district))), PyStr(Strip(street_name)))
    ELSE IF StrTruthy(q)
         THEN get_search_params(PyStr(Strip(q)), None, None)
         ELSE IF StrTruthy(a)
              THEN get_search_params(PyStr(Strip(a)), None, None)
              ELSE NoCall

\* lines 131-140: the call of get_search that the arguments select, as the
\* parameters get_search derives from it; NoCall when no branch is taken
search_mode(a, q, district, street_name) ==
    IF StrTruthy(district) /\ StrTruthy(street_name)
    THEN get_search_params(None, PyStr(Upper(Strip(district))), PyStr(Strip(street_name)))
    ELSE IF StrTruthy(q)
         THEN get_search_params(PyStr(Strip(q)), None, None)
         ELSE IF StrTruthy(a) /\ a \notin Placeholders
              THEN get_search_params(PyStr(Strip(a)), None, None)
              ELSE NoCall

Min(a, b) == IF a < b THEN a ELSE b

\* variant: the slice is not taken
FirstN_unsliced(xs, n) == xs

\* xs[:n]
FirstN(xs, n) == SubSeq(xs, 1, Min(n, Len(xs)))

\* needle in hay
Contains(needle, hay) ==
    \E i \in 0..(Len(hay) - Len(needle)) : SubSeq(hay, i + 1, i + Len(needle)) = needle

RECURSIVE ConcatProps(_)
ConcatProps(table) == IF table = <<>> THEN <<>> ELSE Head(table).props \o ConcatProps(Tail(table))

MockNames == {AREA_PROPERTIES[i].name : i \in DOMAIN AREA_PROPERTIES}
MockProps(a) == MockTable[CHOOSE i \in DOMAIN AREA_PROPERTIES : AREA_PROPERTIES[i].name = a].props

\* variant: the filter compares without lower()
mock_resolve_case_sensitive(a, q) ==
    LET base == IF a \in MockNames THEN MockProps(a)
                ELSE IF a \in Placeholders THEN FirstN(ConcatProps(MockTable), MockMixLimit)
                ELSE <<>>
        Matches(p) == Contains(Strip(q), DictGet(p, "address", PyStr(<<>>)).s)
    IN IF StrTruthy(q) /\ base # <<>> THEN SelectSeq(base, Matches) ELSE base

\* variant: the records of all areas are filtered before the first 6 are taken
mock_resolve_filter_first(a, q) ==
    LET Matches(p) == Contains(Lower(Strip(q)), Lower(DictGet(p, "address", PyStr(<<>>)).s))
        Filtered(props) == IF StrTruthy(q) /\ props # <<>> THEN SelectSeq(props, Matches) ELSE props
    IN IF a \in MockNames THEN Filtered(MockProps(a))
       ELSE IF a \in Placeholders THEN FirstN(Filtered(ConcatProps(MockTable)), MockMixLimit)
       ELSE <<>>

\* lines 221-238: the mock fallback
mock_resolve(a, q) ==
    LET base == IF a \in MockNames THEN MockProps(a)
                ELSE IF a \in Placeholders THEN FirstN(ConcatProps(MockTable), MockMixLimit)
                ELSE <<>>
        Matches(p) == Contains(Lower(Strip(q)), Lower(DictGet(p, "address", PyStr(<<>>)).s))
    IN IF StrTruthy(q) /\ base # <<>> THEN SelectSeq(base, Matches) ELSE base

\* variant: the fallback is taken only when the live path raised
search_properties_result_raised_only(outcome, a, q) ==
    IF outcome # Raised THEN outcome.items ELSE mock_resolve(a, q)

\* variant: the records built before the exception are kept in front of
\* the mock records
search_properties_result_keeps_built(outcome, a, q) ==
    IF outcome = Raised THEN properties \o mock_resolve(a, q)
    ELSE IF outcome.items # <<>> THEN outcome.items ELSE mock_resolve(a, q)

\* lines 211-238: the live result (a PyList, or Raised) when it is a list
\* that is not empty, else the mock fallback; an exception of the live path
\* is swallowed
search_properties_result(outcome, a, q) ==
    IF outcome # Raised /\ outcome.items # <<>> THEN outcome.items ELSE mock_resolve(a, q)

\* lines 159-188: the records of one valuations payload as a PyList, or
\* Raised: val.get on an entry that is no dict, and the slice of a `data`
\* that is no sequence, raise
RECURSIVE BuildAll(_, _, _)
BuildAll(entries, area_code, label) ==
    IF entries = <<>> THEN PyList(<<>>)
    ELSE IF Head(entries).t # "dict" THEN Raised
    ELSE LET rest == BuildAll(Tail(entries), area_code, label) IN
         IF rest = Raised THEN Raised
         ELSE PyList(<<build_property(Head(entries), area_code, label)>> \o rest.items)

records_of(valuations, area_code, label) ==
    IF Truthy(valuations) /\ valuations.t = "dict"
    THEN LET valuation_data == DictGet(valuations.fields, "data", PyList(<<>>)) IN
         CASE valuation_data.t = "list" ->
                  BuildAll(FirstN(valuation_data.items, ValuationLimit), area_code, label)
           [] valuation_data.t = "str" ->
                  IF valuation_data.s = <<>> THEN PyList(<<>>) ELSE Raised
           [] OTHER -> Raised
    ELSE PyList(<<>>)

\* the first position from i on whose area code makes
\* get_current_valuations issue a request
RECURSIVE NextCallIndex(_, _)
NextCallIndex(codes, i) ==
    IF i > Len(codes) THEN i
    ELSE IF get_current_valuations_params(None, codes[i]) = None THEN NextCallIndex(codes, i + 1)
    ELSE i

(***************************************************************************)
(* Inputs and upstream replies of the search                               *)
(***************************************************************************)
\* the selector of app.py offers the area catalogue; its text box any text
AppAreas == {Chars.Anywhere, Chars.London, Chars.Aberdeen}
AppQueries == {<<>>, Chars.Brixton, Chars.FullPostcode, Chars.baker, Chars.Blank}

ResolverAreas == AppAreas \cup {<<>>, Chars.Any}
ResolverDistricts == {<<>>, Chars.Blank, Chars.sw1a}
ResolverStreets == {<<>>, Chars.Blank, Chars.Downing}

CodeN(i) == PyStr(<<"E", UpperChars[i]>>)

\* more area codes than the loop looks at, no borough and no ward
ManyCodesItem ==
    PyDict([area_code |-> PyDict([area_code_list |-> PyList([i \in 1..(AreaCodeLimit + 1) |-> CodeN(i)])])])

\* the payloads the session model lets the upstream answer a search with
AppSearchBodies ==
    << PyDict([search_query |-> Txt.Brixton, data |-> PyList(<<>>)]),
       PyDict([search_query |-> Txt.Brixton, data |-> PyList(<<PyList(<<FullItem>>)>>)]),
       PyList(<<FullItem>>) >>

\* the payloads the resolver model lets the upstream answer a search with
SearchBodies ==
    AppSearchBodies
    \o << PyDict([data |-> PyList(<<Item(PyDict([area_code_list |-> PyList(<<None, Txt.SE1, Txt.SW2>>)]),
                                        Absent, PyList(<<Txt.Brixton>>), Absent)>>)]),
          PyDict([data |-> PyList(<<PyList(<<ManyCodesItem>>)>>)]) >>

\* the answers to a search request, one after the other: no answer, an
\* error status, a body that is no JSON, and each of the payloads
RepliesWith(bodies) ==
    <<TransportError, Response(404, NotJson), Response(200, NotJson)>>
    \o [i \in 1..Len(bodies) |-> Response(200, bodies[i])]

SampleEntries ==
    << PyDict([property_address |-> Txt.Address, bounded_valuation |-> PyList(<<PyInt(1), PyInt(2)>>),
               last_sold_price |-> PyInt(1), last_sold_date |-> Txt.Date]),
       PyDict([bounded_valuation |-> PyList(<<>>), last_sold_price |-> PyInt(0)]),
       PyDict([property_address |-> Txt.Address, bounded_valuation |-> None]),
       PyDict([property_address |-> Txt.Address, bounded_valuation |-> PyList(<<PyInt(2)>>)]) >>

\* the valuations the upstream holds for an area code
ValuationsBody(area_code) ==
    CASE area_code = Txt.SW9 -> PyDict([data |-> PyList(SampleEntries)])
      [] area_code = Txt.SW2 -> PyDict([data |-> PyList(<<SampleEntries[2]>>)])
      [] area_code = Txt.SE1 -> PyDict([data |-> PyList(<<>>)])
      [] OTHER -> PyDict([data |-> PyList(SampleEntries)])

ValuationsReplies(area_code) ==
    { TransportError, Response(500, NotJson), Response(200, NotJson),
      Response(200, ValuationsBody(area_code)),
      Response(200, PyDict([data |-> None])),
      Response(200, PyDict([data |-> PyList(<<SampleEntries[1], Txt.SW9>>)])) }

(***************************************************************************)
(* The search as a state machine: one step per upstream round trip         *)
(***************************************************************************)
Init ==
    /\ pc = "idle"
    /\ area = <<>>
    /\ query = <<>>
    /\ postcode_district = <<>>
    /\ street = <<>>
    /\ validation = Unset
    /\ api_response = Unset
    /\ parsed = Unset
    /\ val = Unset
    /\ properties = <<>>
    /\ sort_option = Unset
    /\ sorted_results = Unset
    /\ caller = "none"
    /\ requests = <<>>
    /\ code_index = 0
    /\ returned = Unset
    /\ live = Unset
    /\ answered = 0
    /\ mock_changes = {}
    /\ gw_call = Unset
    /\ upstream = Unset
    /\ results = <<>>
    /\ last_search = [area |-> None, query |-> None]
    /\ current_view = "properties"

\* variant: the session appends the records of a search to those it holds
Finish_merging(outcome, p, a, q, who) ==
    LET value == search_properties_result(outcome, a, q) IN
    /\ pc' = IF who = "app" THEN "idle" ELSE "returned"
    /\ returned' = value
    /\ live' = outcome
    /\ IF who = "app"
       THEN /\ results' = results \o value
            /\ last_search' = [area |-> PyStr(a), query |-> PyStr(q)]
       ELSE UNCHANGED sessionVars
    /\ api_response' = Unset
    /\ parsed' = IF who = "app" THEN Unset ELSE p
    /\ properties' = <<>>
    /\ code_index' = 0

\* search_properties returns (lines 215-238); the search trigger of app.py
\* (lines 159-161) stores the value and the search in the session.  p is
\* the parsed search result the call worked with, Unset when it had none
Finish(outcome, p, a, q, who) ==
    LET value == search_properties_result(outcome, a, q) IN
    /\ pc' = IF who = "app" THEN "idle" ELSE "returned"
    /\ returned' = value
    /\ live' = outcome
    /\ IF who = "app"
       THEN /\ results' = value
            /\ last_search' = [area |-> PyStr(a), query |-> PyStr(q)]
       ELSE UNCHANGED sessionVars
    /\ api_response' = Unset
    /\ parsed' = IF who = "app" THEN Unset ELSE p
    /\ properties' = <<>>
    /\ code_index' = 0

\* search_properties is called: lines 128-141 pick the mode, and get_search
\* issues its request unless no mode applies
Start(a, q, district, street_name, who) ==
    /\ area' = a
    /\ query' = q
    /\ postcode_district' = district
    /\ street' = street_name
    /\ caller' = who
    /\ answered' = 0
    /\ LET params == search_mode(a, q, district, street_name) IN
       IF params = NoCall \/ params = None
       THEN /\ requests' = <<>>
            /\ Finish(PyList(<<>>), Unset, a, q, who)
       ELSE /\ requests' = <<SearchRequest(params)>>
            /\ pc' = "search_wait"
            /\ returned' = Unset
            /\ live' = Unset
            /\ api_response' = Unset
            /\ parsed' = Unset
            /\ properties' = <<>>
            /\ code_index' = 0
            /\ UNCHANGED sessionVars
    /\ UNCHANGED <<validation, val, sortVars, gatewayVars, mock_changes, current_view>>

\* app.py lines 156-161: the search button, with the selected area and the text
Submit ==
    /\ pc = "idle"
    /\ \E a \in AppAreas, q \in AppQueries : Start(a, q, <<>>, <<>>, "app")

\* search_properties called with the four arguments that were drawn
CallResolver ==
    /\ pc = "call"
    /\ Start(area, query, postcode_district, street, "direct")

\* variant: the valuations requests of all remaining area codes are issued
\* together
EnterLoop_all_at_once(p, i, props) ==
    LET codes == FirstN(p.area_codes, AreaCodeLimit)
        j == NextCallIndex(codes, i)
        rest == SelectSeq(SubSeq(codes, j, Len(codes)), LAMBDA c : c # None)
    IN IF j > Len(codes)
       THEN /\ Finish(PyList(props), p, area, query, caller)
            /\ UNCHANGED requests
       ELSE /\ pc' = "valuations_wait"
            /\ parsed' = p
            /\ code_index' = j
            /\ properties' = props
            /\ requests' = requests \o [k \in DOMAIN rest |->
                                           ValuationsRequest(get_current_valuations_params(None, rest[k]))]
            /\ UNCHANGED <<api_response, returned, live, sessionVars>>

\* the loop of lines 155-157 reaches position i with the records props
EnterLoop(p, i, props) ==
    LET codes == FirstN(p.area_codes, AreaCodeLimit)
        j == NextCallIndex(codes, i)
    IN IF j > Len(codes)
       THEN /\ Finish(PyList(props), p, area, query, caller)
            /\ UNCHANGED requests
       ELSE /\ pc' = "valuations_wait"
            /\ parsed' = p
            /\ code_index' = j
            /\ properties' = props
            /\ requests' = Append(requests, ValuationsRequest(get_current_valuations_params(None, codes[j])))
            /\ UNCHANGED <<api_response, returned, live, sessionVars>>

\* the upstream answers the search request: lines 142-157
SearchReplyFrom(replies) ==
    /\ pc = "search_wait"
    /\ answered' = answered + 1
    /\ \E k \in 1..Len(replies) :
          LET response == gateway_result(replies[k]) IN
          IF response = Raised
          THEN Finish(Raised, Unset, area, query, caller) /\ UNCHANGED requests
          ELSE IF ~Truthy(response)
          THEN Finish(PyList(<<>>), Unset, area, query, caller) /\ UNCHANGED requests
          ELSE LET p == parse_api_search_response(response) IN
               IF ~Truthy(p)
               THEN Finish(PyList(<<>>), p, area, query, caller) /\ UNCHANGED requests
               ELSE EnterLoop(p, 1, <<>>)
    /\ UNCHANGED <<argVars, caller, validation, val, sortVars, gatewayVars, mock_changes, current_view>>

\* the upstream answers a valuations request: lines 157-188, and the next
\* turn of the loop or the return
ValuationsReply ==
    /\ pc = "valuations_wait"
    /\ answered' = answered + 1
    /\ LET area_code == FirstN(parsed.area_codes, AreaCodeLimit)[code_index] IN
       \E reply \in ValuationsReplies(area_code) :
          LET valuations == gateway_result(reply) IN
          IF valuations = Raised
          THEN Finish(Raised, parsed, area, query, caller) /\ UNCHANGED requests
          ELSE LET built == records_of(valuations, area_code,
                                       area_label(parsed.boroughs, parsed.wards, area)) IN
               IF built = Raised
               THEN Finish(Raised, parsed, area, query, caller) /\ UNCHANGED requests
               ELSE EnterLoop(parsed, code_index + 1, properties \o built.items)
    /\ UNCHANGED <<argVars, caller, validation, val, sortVars, gatewayVars, mock_changes, current_view>>

AppSearchReply == SearchReplyFrom(RepliesWith(AppSearchBodies))

SearchReply == SearchReplyFrom(RepliesWith(SearchBodies))

\* app.py lines 171-184: a navigation button sets the view and reruns the
\* script, which finds `submitted` false
SwitchView ==
    /\ pc = "idle"
    /\ \E view \in {"properties", "heatmap"} : current_view' = view
    /\ UNCHANGED <<pc, argVars, validation, parseVars, val, properties, sortVars, searchVars,
                   sessionVars, gatewayVars, mock_changes>>

\* the presentation session: searches submitted one after the other, and
\* switches of the view between them
Next == Submit \/ AppSearchReply \/ ValuationsReply \/ SwitchView

Spec == Init /\ [][Next]_vars

\* one call of search_properties with arguments drawn from the input sets
InitResolver ==
    /\ pc = "call"
    /\ area \in ResolverAreas
    /\ query \in AppQueries
    /\ postcode_district \in ResolverDistricts
    /\ street \in ResolverStreets
    /\ validation = Unset
    /\ api_response = Unset
    /\ parsed = Unset
    /\ val = Unset
    /\ properties = <<>>
    /\ sort_option = Unset
    /\ sorted_results = Unset
    /\ caller = "none"
    /\ requests = <<>>
    /\ code_index = 0
    /\ returned = Unset
    /\ live = Unset
    /\ answered = 0
    /\ mock_changes = {}
    /\ gw_call = Unset
    /\ upstream = Unset
    /\ results = <<>>
    /\ last_search = [area |-> None, query |-> None]
    /\ current_view = "properties"

NextResolver == CallResolver \/ SearchReply \/ ValuationsReply

SpecResolver == InitResolver /\ [][NextResolver]_vars

\* searches that end in the mock fallback: every label of the mock table,
\* the placeholders and a label the table does not have, with queries in
\* either case and with blanks around them, and an upstream that fails
FallbackAreas == MockNames \cup Placeholders \cup {Chars.Aberdeen}
FallbackQueries == {<<>>, Chars.Blank, Chars.baker, Chars.Road, <<"z", "z">>}

InitFallback ==
    /\ pc = "call"
    /\ area \in FallbackAreas
    /\ query \in FallbackQueries
    /\ postcode_district = <<>>
    /\ street = <<>>
    /\ validation = Unset
    /\ api_response = Unset
    /\ parsed = Unset
    /\ val = Unset
    /\ properties = <<>>
    /\ sort_option = Unset
    /\ sorted_results = Unset
    /\ caller = "none"
    /\ requests = <<>>
    /\ code_index = 0
    /\ returned = Unset
    /\ live = Unset
    /\ answered = 0
    /\ mock_changes = {}
    /\ gw_call = Unset
    /\ upstream = Unset
    /\ results = <<>>
    /\ last_search = [area |-> None, query |-> None]
    /\ current_view = "properties"

FailedSearchReply == SearchReplyFrom(RepliesWith(<<>>))

NextFallback == CallResolver \/ FailedSearchReply

SpecFallback == InitFallback /\ [][NextFallback]_vars

\* rq.get is called without a timeout (scansan_client.py lines 47 and 151):
\* when the upstream never answers, the call never returns
UpstreamSilent ==
    /\ pc \in {"search_wait", "valuations_wait"}
    /\ pc' = "blocked"
    /\ UNCHANGED <<argVars, validation, parseVars, val, properties, sortVars, searchVars,
                   sessionVars, gatewayVars, mock_changes, current_view>>

NextResolverLive == CallResolver \/ SearchReply \/ ValuationsReply \/ UpstreamSilent

\* the interpreter runs the call on whenever it can, and the upstream either
\* answers a request or stays silent
SpecResolverLive == InitResolver /\ [][NextResolverLive]_vars /\ WF_vars(NextResolverLive)

(***************************************************************************)
(* A caller that keeps the list it was returned, as the session does, and  *)
(* changes it between its searches                                         *)
(***************************************************************************)
MaxEdits == 1

\* the value returned last came from the mock table: lines 224-236 return
\* new lists, AREA_PROPERTIES[area].copy() included, that hold the dicts of
\* the table themselves
FromMock == live = Raised \/ live.items = <<>>

\* the caller assigns to a key of a record it holds; a dict of the mock
\* table is changed with it.  `returned` keeps the value as it was returned
ModifyRecord ==
    /\ pc = "idle"
    /\ live # Unset
    /\ Cardinality(mock_changes) < MaxEdits
    /\ Cardinality({i \in DOMAIN results : results[i] # returned[i]}) < MaxEdits
    /\ \E i \in DOMAIN results :
          LET record == results[i]
              changed == [record EXCEPT !.current_price = PyInt(0)]
          IN /\ changed # record
             /\ results' = [results EXCEPT ![i] = changed]
             /\ IF FromMock
                THEN LET pos == CHOOSE p \in MockPositions : MockTable[p[1]].props[p[2]] = record IN
                     mock_changes' = {c \in mock_changes : c.pos # pos} \cup {[pos |-> pos, record |-> changed]}
                ELSE UNCHANGED mock_changes
    /\ UNCHANGED <<pc, argVars, validation, parseVars, val, properties, sortVars, searchVars,
                   last_search, gatewayVars, current_view>>

\* the caller empties the list it holds
ClearList ==
    /\ pc = "idle"
    /\ results # <<>>
    /\ results' = <<>>
    /\ UNCHANGED <<pc, argVars, validation, parseVars, val, properties, sortVars, searchVars,
                   last_search, gatewayVars, mock_changes, current_view>>

NextReuse == Submit \/ AppSearchReply \/ ValuationsReply \/ ModifyRecord \/ ClearList

SpecReuse == Init /\ [][NextReuse]_vars

(***************************************************************************)
(* Claims about the search                                                 *)
(***************************************************************************)
\* C7: in a search started from the presentation layer, input that
\* validate_search_input rejects causes no upstream request.
C7_RejectedInputIssuesNoRequest ==
    (caller = "app" /\ validate_search_input(query, postcode_district, street) # None)
        => requests = <<>>

SearchRequestOf(fields) == [endpoint |-> "search", params |-> fields]

\* C10: with district and street both non-empty the search request carries
\* gbr_district and gbr_street and no area_name, whatever query and area
\* are; otherwise a non-empty query is sent as area_name, otherwise an area
\* that is no placeholder is sent as area_name.  The values are sent
\* trimmed, the district upper-cased.
C10_ModePriority ==
    caller = "direct" =>
        IF postcode_district # <<>> /\ street # <<>>
        THEN /\ requests # <<>>
             /\ requests[1] = SearchRequestOf([gbr_district |-> PyStr(Upper(Strip(postcode_district))),
                                               gbr_street |-> PyStr(Strip(street))])
        ELSE IF query # <<>>
        THEN /\ requests # <<>>
             /\ requests[1] = SearchRequestOf([area_name |-> PyStr(Strip(query))])
        ELSE (area \notin {Chars.Anywhere, Chars.Any, <<>>}) =>
             /\ requests # <<>>
             /\ requests[1] = SearchRequestOf([area_name |-> PyStr(Strip(area))])

C10_Witness ==
    /\ caller = "direct"
    /\ pc = "returned"
    /\ area = Chars.London
    /\ query = Chars.Brixton
    /\ postcode_district = Chars.sw1a
    /\ street = Chars.Downing
    /\ requests[1] = SearchRequestOf([gbr_district |-> PyStr(<<"S","W","1","A">>),
                                      gbr_street |-> PyStr(<<"D","o","w","n","i","n","g"," ","S","t">>)])

\* a direct call of search_properties has returned
DirectReturned == caller = "direct" /\ pc = "returned"

\* C11: search_properties returns a value, never raises; when the live
\* path raised or gave no record, the value is the mock fallback for the
\* area and the query it was called with.
C11_FallbackOnFailure ==
    DirectReturned =>
        ((live = Raised \/ live.items = <<>>) => returned = mock_resolve(area, query))

C11_Witness ==
    /\ DirectReturned
    /\ live = Raised
    /\ Len(requests) = 2
    /\ area = Chars.London
    /\ query = Chars.baker
    /\ Len(returned) = 2

\* the records of props whose address contains the query, trimmed and in
\* lower case; all of them when the query is empty
KeepMatching(props, q) ==
    IF q = <<>> THEN props
    ELSE SelectSeq(props, LAMBDA p : Contains(Lower(Strip(q)), Lower(p.address.s)))

\* the search response held no area code
ZeroAreaCodes == DirectReturned /\ parsed.t = "result" /\ parsed.area_codes = <<>>

\* C12 as stated: when the search response holds no area code, the value
\* is the mock fallback of the label when the mock table has the label, and
\* the empty sequence for every other label.
C12_UnknownLabelGivesEmpty ==
    ZeroAreaCodes =>
        returned = IF area \in MockNames THEN KeepMatching(MockProps(area), query) ELSE <<>>

\* C12 as amended: when the search response holds no area code, the value
\* is the mock records of the label when the mock table has the label, the
\* first 6 records of the whole mock table when the label is a placeholder,
\* and no record for every other label, each filtered by the query.
C12_ZeroCodesGiveMock ==
    ZeroAreaCodes =>
        returned = KeepMatching(IF area \in MockNames THEN MockProps(area)
                                ELSE IF area \in {Chars.Anywhere, Chars.Any, <<>>}
                                     THEN SubSeq(ConcatProps(AREA_PROPERTIES), 1, 6)
                                     ELSE <<>>,
                                query)

C12_Witness ==
    /\ ZeroAreaCodes
    /\ area = Chars.Anywhere
    /\ query = Chars.baker
    /\ Len(requests) = 1
    /\ Len(returned) = 2

\* the records the live path has built so far
Built ==
    IF pc = "valuations_wait" THEN properties
    ELSE IF live # Unset /\ live # Raised THEN live.items
    ELSE <<>>

\* the valuations requests of the first 6 area codes, in their order; a
\* code that is None makes get_current_valuations return before its request
ValuationCallsOf(codes) ==
    LET first == SubSeq(codes, 1, IF Len(codes) < 6 THEN Len(codes) ELSE 6)
        issuing == SelectSeq(first, LAMBDA c : c # None)
    IN [k \in DOMAIN issuing |-> [endpoint |-> "current_valuations", params |-> [area_code |-> issuing[k]]]]

\* the valuations requests that were answered
AnsweredCalls == IF pc = "valuations_wait" THEN Len(requests) - 2 ELSE Len(requests) - 1

\* C15: a search issues its search request and then at most 6 valuations
\* requests, for the first 6 parsed area codes in their order; each answer
\* adds at most 3 records, so there are never more than 18 records and 7
\* requests.
C15_BoundedUpstreamCalls ==
    (caller = "direct" /\ requests # <<>>) =>
        /\ Len(requests) <= 7
        /\ requests[1].endpoint = "search"
        /\ Len(requests) >= 2 =>
              /\ parsed.t = "result"
              /\ Len(ValuationCallsOf(parsed.area_codes)) >= Len(requests) - 1
              /\ Tail(requests) = SubSeq(ValuationCallsOf(parsed.area_codes), 1, Len(requests) - 1)
        /\ Len(Built) <= 3 * AnsweredCalls
        /\ Len(Built) <= 18

C15_Witness ==
    /\ DirectReturned
    /\ parsed.t = "result"
    /\ Len(parsed.area_codes) = 7
    /\ Len(requests) = 7
    /\ Len(Built) = 18
    /\ returned = Built

\* no search mode applies to the arguments
NoModeApplies ==
    /\ postcode_district = <<>> \/ street = <<>>
    /\ query = <<>>
    /\ area \in {<<>>, Chars.Anywhere, Chars.Any}

\* C16 as stated: when no search mode applies, no upstream request is made
\* and the result is empty.
C16_NoModeEmptyResult ==
    (DirectReturned /\ NoModeApplies) => (requests = <<>> /\ returned = <<>>)

\* C16 as amended: when no search mode applies, no upstream request is
\* made and the live path gives no record; search_properties then returns
\* the mock fallback of the placeholder, the first 6 records of the mock
\* table.
C16_NoModeNoCall ==
    (DirectReturned /\ NoModeApplies) =>
        /\ requests = <<>>
        /\ live = PyList(<<>>)
        /\ returned = SubSeq(ConcatProps(AREA_PROPERTIES), 1, 6)

C16_Witness ==
    /\ DirectReturned
    /\ NoModeApplies
    /\ area = Chars.Anywhere
    /\ postcode_district = Chars.sw1a
    /\ requests = <<>>
    /\ Len(returned) = 6

\* C17: every record of the live path has as area the first borough of the
\* parsed result, else its first ward, else the area the caller passed (not
\* the query), so all records of a search have the same area.
C17_AreaFromBoroughWardOrLabel ==
    caller = "direct" =>
        \A i \in DOMAIN Built :
            /\ Built[i].area = IF parsed.boroughs # <<>> THEN parsed.boroughs[1]
                               ELSE IF parsed.wards # <<>> THEN parsed.wards[1]
                               ELSE PyStr(area)
            /\ Built[i].area = Built[1].area

C17_Witness ==
    /\ caller = "direct"
    /\ area = Chars.London
    /\ query = Chars.Brixton
    /\ parsed.t = "result"
    /\ parsed.boroughs = <<>>
    /\ parsed.wards = <<>>
    /\ Len(Built) > 0
    /\ Built[1].area = PyStr(Chars.London)

\* the upstream calls that were issued and have not ended
Outstanding == Len(requests) - answered

\* C24: the upstream calls of a search are strictly sequential: at most one
\* call is outstanding at any time, the search call has ended before the
\* first valuations call is issued, and the valuations calls are issued in
\* the order of the area codes.
C24_SequentialUpstreamCalls ==
    caller = "direct" =>
        /\ Outstanding \in {0, 1}
        /\ Outstanding = 1 <=> pc \in {"search_wait", "valuations_wait"}
        /\ Len(requests) >= 2 =>
              /\ answered >= 1
              /\ requests[1].endpoint = "search"
              /\ \A i \in 2..Len(requests) : requests[i].endpoint = "current_valuations"
              /\ parsed.t = "result"
              /\ Len(requests) - 1 <= Len(ValuationCallsOf(parsed.area_codes))
              /\ \A i \in 2..Len(requests) : requests[i] = ValuationCallsOf(parsed.area_codes)[i - 1]

C24_Witness ==
    /\ caller = "direct"
    /\ pc = "valuations_wait"
    /\ Len(requests) = 4
    /\ answered = 3
    /\ Len(properties) = 6

\* the mock fallback computed from the table as the source has it
PristineFallback(a, q) ==
    KeepMatching(IF \E t \in DOMAIN AREA_PROPERTIES : AREA_PROPERTIES[t].name = a
                 THEN AREA_PROPERTIES[CHOOSE t \in DOMAIN AREA_PROPERTIES : AREA_PROPERTIES[t].name = a].props
                 ELSE IF a \in {Chars.Anywhere, Chars.Any, <<>>}
                      THEN SubSeq(ConcatProps(AREA_PROPERTIES), 1, 6)
                      ELSE <<>>,
                 q)

\* C25: whatever the caller did to the lists and records it was returned,
\* the mock table is as the source has it, and the value a search returns
\* is determined by its inputs and the upstream responses alone.
C25_StatelessCore ==
    /\ MockTable = AREA_PROPERTIES
    /\ (caller = "app" /\ pc = "idle" /\ live # Unset) =>
          returned = IF live # Raised /\ live.items # <<>> THEN live.items ELSE PristineFallback(area, query)

\* a record built from an upstream valuation, and a record of the mock table
IsLiveRecord(r) == DOMAIN r = {"address", "postcode", "area", "current_price", "future_price",
                               "last_sold_price", "last_sold_date", "score"}
IsMockRecord(r) == \E pos \in MockPositions : MockTable[pos[1]].props[pos[2]] = r

AllLive(xs) == \A i \in DOMAIN xs : IsLiveRecord(xs[i])
AllMock(xs) == \A i \in DOMAIN xs : IsMockRecord(xs[i])

\* the search ends with a fault after records were built for earlier area codes
FaultAfterRecords ==
    /\ caller = "direct"
    /\ pc = "valuations_wait"
    /\ properties # <<>>
    /\ pc' = "returned"
    /\ live' = Raised

\* C29: the value of search_properties is never a mixture: it holds only
\* records built from upstream valuations or only records of the mock
\* table; and when a fault ends the live path at a later area code, the
\* records built for the earlier ones are dropped and the value is the mock
\* fallback.
C29_NeverAMixture ==
    /\ [](DirectReturned => (AllLive(returned) \/ AllMock(returned)))
    /\ [][FaultAfterRecords => (AllMock(returned') /\ returned' = PristineFallback(area, query))]_vars

C29_Witness ==
    /\ DirectReturned
    /\ live = Raised
    /\ answered = 3
    /\ area = Chars.London
    /\ query = Chars.baker
    /\ AllMock(returned)
    /\ Len(returned) = 2

\* C30: the identifiers of every search request are not empty: area_name,
\* gbr_district and gbr_street are sent trimmed and hold at least one
\* character, also when the query, the district or the street that was
\* passed holds blanks only.
C30_NoEmptyIdentifier ==
    caller = "direct" =>
        \A i \in DOMAIN requests :
            requests[i].endpoint = "search" =>
                \A k \in DOMAIN requests[i].params :
                    /\ requests[i].params[k].s = Strip(requests[i].params[k].s)
                    /\ requests[i].params[k].s # <<>>

\* C28: before the first submission the session holds no result and
\* last_search.area is None; after any sequence of submissions and view
\* switches it holds exactly the value of the most recent search, which
\* replaced what was held, and last_search is that search's area and query.
C28_SessionHoldsLastSearch ==
    /\ caller = "none" => (results = <<>> /\ last_search = [area |-> None, query |-> None])
    /\ (caller = "app" /\ pc = "idle") =>
          /\ results = returned
          /\ last_search = [area |-> PyStr(area), query |-> PyStr(query)]

C28_Witness ==
    /\ caller = "app"
    /\ pc = "idle"
    /\ current_view = "heatmap"
    /\ last_search = [area |-> PyStr(Chars.London), query |-> PyStr(Chars.baker)]
    /\ Len(results) = 2
    /\ results[2] = AREA_PROPERTIES[1].props[3]

\* C27: the mock fallback for a label of the mock table is the records of
\* that label whose address contains the trimmed query, compared without
\* regard to case, in table order, and all of them when the query is empty;
\* for a placeholder it is the same selection from the first 6 records of
\* the whole table.
C27_MockFallbackFilter ==
    (DirectReturned /\ (live = Raised \/ live.items = <<>>)) =>
        /\ area \in MockNames => returned = KeepMatching(MockProps(area), query)
        /\ area \in {Chars.Anywhere, Chars.Any, <<>>} =>
              returned = KeepMatching(SubSeq(ConcatProps(MockTable), 1, 6), query)

C27_Witness ==
    /\ DirectReturned
    /\ live = Raised
    /\ area = Chars.Anywhere
    /\ query = Chars.Road
    /\ Len(returned) = 2
    /\ returned[2] = AREA_PROPERTIES[2].props[2]

\* C26: every search eventually returns to its caller, also when an
\* upstream call is never answered.
C26_SearchEventuallyReturns == <>(pc = "returned")

\* get_search called on its own with every combination of its arguments,
\* and get_search called by the resolver
InitSearchRequests == InitGateway \/ InitResolver

NextSearchRequests == NextGateway \/ NextResolver

SpecSearchRequests == InitSearchRequests /\ [][NextSearchRequests]_vars

\* C23: every search request carries either area_name alone or gbr_district
\* and gbr_street together, each with a value, never both sets and never
\* neither, whatever arguments the resolver or get_search is given.
C23_ExactlyOneParameterSet ==
    \A i \in DOMAIN requests :
        requests[i].endpoint = "search" =>
            /\ DOMAIN requests[i].params \in {{"area_name"}, {"gbr_district", "gbr_street"}}
            /\ \A k \in DOMAIN requests[i].params : requests[i].params[k].t = "str"

C23_Witness ==
    /\ pc = "gateway_done"
    /\ gw_call = GatewayCall("get_search", <<Txt.SW9, Txt.SW9, Txt.Empty>>)
    /\ requests = <<SearchRequestOf([area_name |-> Txt.SW9])>>

====
